---- MODULE Spec2Model ----
(***************************************************************************)
(* Model of MD-Merger: the command line pipeline of                        *)
(* markdown_merger_c_l_i.py (collect, validate, merge, main) and the       *)
(* configuration object of merger_config.py (MergerConfig).                *)
(*                                                                         *)
(* Python strings are sequences of one-character strings, so that          *)
(* comparison, lower(), endswith() and concatenation are computed.         *)
(***************************************************************************)
EXTENDS Integers, Sequences, FiniteSets, TLC

VARIABLES
    pc,             \* position of main()
    args,           \* parsed command line: the -f list or the -d directory
    fs,             \* file system: the sets of regular files and directories
    md_files,       \* result of collect_md_files_from_directory
    input_files,    \* result of validate_input_files
    separators_arg, \* the add_separators argument passed to the merge
    reads,          \* what read_markdown_file met for each merged file
    writes,         \* the output.write calls of the merge, with loop index
    destination,    \* what became of the destination file
    success,        \* return value of merge_markdown_files
    exit_code,      \* process exit status, -1 while running
    config_file,    \* the override document handed to MergerConfig
    config,         \* MergerConfig.config
    cfg_pc,         \* position of the MergerConfig object
    warned,         \* _load_config_file printed its warning
    raised,         \* an exception left _load_config_file
    got             \* last result of MergerConfig.get

vars == <<pc, args, fs, md_files, input_files, separators_arg, reads, writes, destination, success,
          exit_code, config_file, config, cfg_pc, warned, raised, got>>

mainVars == <<pc, args, fs, md_files, input_files, separators_arg, reads,
              writes, destination, success, exit_code>>
cfgVars == <<config_file, config, cfg_pc, warned, raised, got>>

(***************************************************************************)
(* Bounds                                                                  *)
(***************************************************************************)
MaxFiles == 3       \* longest explicit file list given with -f

(***************************************************************************)
(* Strings                                                                 *)
(***************************************************************************)
\* ord() of the characters that occur in paths
Ord ==
    "." :> 46 @@ "/" :> 47 @@
    "B" :> 66 @@ "D" :> 68 @@ "M" :> 77 @@
    "a" :> 97 @@ "b" :> 98 @@ "c" :> 99 @@ "d" :> 100 @@ "l" :> 108 @@
    "m" :> 109 @@ "q" :> 113 @@ "s" :> 115 @@ "t" :> 116 @@
    "u" :> 117 @@ "x" :> 120 @@ "z" :> 122

Chr(n) == CHOOSE c \in DOMAIN Ord : Ord[c] = n

\* str.lower() on one character: A-Z move to a-z
LowerChar(c) ==
    IF c \in DOMAIN Ord /\ Ord[c] >= 65 /\ Ord[c] <= 90
    THEN Chr(Ord[c] + 32)
    ELSE c

Lower(s) == [i \in 1..Len(s) |-> LowerChar(s[i])]

EndsWith(s, suf) ==
    /\ Len(suf) <= Len(s)
    /\ SubSeq(s, Len(s) - Len(suf) + 1, Len(s)) = suf

StartsWith(s, pre) ==
    /\ Len(pre) <= Len(s)
    /\ SubSeq(s, 1, Len(pre)) = pre

\* Python's str < str: the first differing code point decides, a proper
\* prefix is smaller
StrLess(a, b) ==
    \E i \in 1..(Len(a) + 1) :
        /\ \A j \in 1..(i - 1) : j <= Len(b) /\ a[j] = b[j]
        /\ i <= Len(b)
        /\ (i > Len(a) \/ Ord[a[i]] < Ord[b[i]])

\* list.sort() / sorted() on short lists: stable insertion sort
Insert(sorted, x) ==
    LET k == Cardinality({i \in 1..Len(sorted) : ~StrLess(x, sorted[i])})
    IN  SubSeq(sorted, 1, k) \o <<x>> \o SubSeq(sorted, k + 1, Len(sorted))

RECURSIVE SortedList(_)
SortedList(s) ==
    IF s = <<>> THEN <<>>
    ELSE Insert(SortedList(SubSeq(s, 1, Len(s) - 1)), s[Len(s)])

RECURSIVE Flatten(_)
Flatten(ss) ==
    IF ss = <<>> THEN <<>> ELSE Head(ss) \o Flatten(Tail(ss))

Range(s) == {s[i] : i \in 1..Len(s)}

DotMd == <<".", "m", "d">>
Slash == <<"/">>

(***************************************************************************)
(* File system                                                             *)
(***************************************************************************)
Root    == <<"d">>
NameA   == <<"a", ".", "m", "d">>
NameB   == <<"b", ".", "m", "d">>
NameBU  == <<"B", ".", "M", "D">>
NameTxt == <<"c", ".", "t", "x", "t">>
NameAlt == <<"a", "l", "t">>
NameSub == <<"s", "u", "b">>
NameZ   == <<"z", ".", "m", "d">>
NameC   == <<"c", ".", "m", "d">>
Missing == <<"q">>

\* os.path.join(root, name)
Join(root, name) ==
    IF StartsWith(name, Slash) THEN name
    ELSE IF root = <<>> \/ EndsWith(root, Slash) THEN root \o name
    ELSE root \o Slash \o name

PathA   == Join(Root, NameA)
PathB   == Join(Root, NameB)
PathBU  == Join(Root, NameBU)
PathTxt == Join(Root, NameTxt)
PathAlt == Join(Root, NameAlt)
PathSub == Join(Root, NameSub)
PathZ   == Join(PathAlt, NameZ)
PathC   == Join(PathSub, NameC)

RootFilePaths == {PathA, PathB, PathBU, PathTxt}

RootNames == {NameA, NameB, NameBU, NameTxt, NameAlt, NameSub}

\* the file systems the runs start from: any subset of the root's files,
\* and each subdirectory absent, empty or holding its one file
SubTrees(dir, file) ==
    { [files |-> {}, dirs |-> {}],
      [files |-> {}, dirs |-> {dir}],
      [files |-> {file}, dirs |-> {dir}] }

FileSystems ==
    { [files |-> F \cup alt.files \cup sub.files,
       dirs  |-> {Root} \cup alt.dirs \cup sub.dirs] :
        F \in SUBSET RootFilePaths,
        alt \in SubTrees(PathAlt, PathZ),
        sub \in SubTrees(PathSub, PathC) }

exists(f, p) == p \in f.files \cup f.dirs
isfile(f, p) == p \in f.files
isdir(f, p)  == p \in f.dirs

\* the orders in which the file system may enumerate directory entries:
\* every order of the names of the root, then the names of the
\* subdirectories (each holds at most one entry)
RECURSIVE Orderings(_)
Orderings(S) ==
    IF S = {} THEN {<<>>}
    ELSE UNION { { <<n>> \o o : o \in Orderings(S \ {n}) } : n \in S }

ScanOrders == { o \o <<NameZ, NameC>> : o \in Orderings(RootNames) }

(***************************************************************************)
(* collect_md_files_from_directory                                         *)
(***************************************************************************)
IsMarkdownName(name) == EndsWith(Lower(name), DotMd)

\* dirs.sort()
SortDirs(dirs) == SortedList(dirs)

\* the files of a directory left in the order of enumeration
SortFiles_unsorted(files) == files

\* sorted(files)
SortFiles(files) == SortedList(files)

RECURSIVE Walk(_, _, _), WalkDirs(_, _, _, _)
\* os.walk(top), top-down: the files of top, then each subdirectory in the
\* order the loop body left dirs in
Walk(f, top, order) ==
    LET entries == SelectSeq(order, LAMBDA n : exists(f, Join(top, n)))
        dirs    == SortDirs(SelectSeq(entries, LAMBDA n : isdir(f, Join(top, n))))
        files   == SelectSeq(entries, LAMBDA n : ~isdir(f, Join(top, n)))
        md      == SelectSeq(SortFiles(files), IsMarkdownName)
        here    == [i \in 1..Len(md) |-> Join(top, md[i])]
    IN  here \o WalkDirs(f, top, dirs, order)

WalkDirs(f, top, dirs, order) ==
    IF dirs = <<>> THEN <<>>
    ELSE Walk(f, Join(top, Head(dirs)), order)
             \o WalkDirs(f, top, Tail(dirs), order)

collect_md_files_from_directory(f, directory, order) ==
    Walk(f, directory, order)

(***************************************************************************)
(* validate_input_files                                                    *)
(***************************************************************************)
IsValidInput(f, file) ==
    /\ exists(f, file)
    /\ isfile(f, file)
    /\ EndsWith(Lower(file), DotMd)

\* the validation without its final sort
validate_input_files_unsorted(f, files) ==
    SelectSeq(files, LAMBDA file : IsValidInput(f, file))

validate_input_files(f, files) ==
    SortedList(SelectSeq(files, LAMBDA file : IsValidInput(f, file)))

(***************************************************************************)
(* read_markdown_file and merge_markdown_files                             *)
(***************************************************************************)
Newline      == <<"\n">>
HeaderPrefix == <<"<", "!", "-", "-", " ", "Q", "u", "e", "l", "l", "e", ":", " ">>
HeaderSuffix == <<" ", "-", "-", ">", "\n", "\n">>
SeparatorBlock == <<"\n", "-", "-", "-", "\n", "\n">>

TextFoo   == <<"f", "o", "o">>
TextBar   == <<"b", "a", "r", "\n">>
TextEmpty == <<>>

\* what open()/read() of a source file can meet: the text of a readable file
\* (possibly empty), or one of the errors of the except clauses
ReadOutcomes ==
    { [err |-> "none", text |-> TextFoo],
      [err |-> "none", text |-> TextBar],
      [err |-> "none", text |-> TextEmpty],
      [err |-> "FileNotFoundError", text |-> <<>>],
      [err |-> "UnicodeDecodeError", text |-> <<>>] }

read_markdown_file(outcome) ==
    IF outcome.err = "none" THEN outcome.text ELSE <<>>

\* the f-string of the header line
Header(filepath) == HeaderPrefix \o filepath \o HeaderSuffix

\* a loop that never skips a file
Skipped_never(content) == FALSE

\* if not content: continue
Skipped(content) == content = <<>>

\* if add_separators and i < len(files) - 1, with i counted from 1 here
WritesSeparator(add_separators, i, n) == add_separators /\ i < n

\* a loop that never appends the line terminator
NeedsNewline_never(content) == FALSE

\* if not content.endswith('\n')
NeedsNewline(content) == ~EndsWith(content, Newline)

\* one pass of the loop body: the output.write calls made for files[i]
LoopBody(files, rd, add_separators, i) ==
    LET content == read_markdown_file(rd[i])
    IN  IF Skipped(content) THEN <<>>
        ELSE <<[i |-> i, text |-> Header(files[i])]>>
             \o <<[i |-> i, text |-> content]>>
             \o (IF NeedsNewline(content)
                 THEN <<[i |-> i, text |-> Newline]>> ELSE <<>>)
             \o (IF WritesSeparator(add_separators, i, Len(files))
                 THEN <<[i |-> i, text |-> SeparatorBlock]>> ELSE <<>>)

RECURSIVE MergeLoop(_, _, _, _)
MergeLoop(files, rd, add_separators, i) ==
    IF i > Len(files) THEN <<>>
    ELSE LoopBody(files, rd, add_separators, i)
             \o MergeLoop(files, rd, add_separators, i + 1)

\* the index of the first file that makes the loop write, 0 if none does
FirstWriter(rd) ==
    IF \E i \in 1..Len(rd) : ~Skipped(read_markdown_file(rd[i]))
    THEN CHOOSE i \in 1..Len(rd) :
             /\ ~Skipped(read_markdown_file(rd[i]))
             /\ \A j \in 1..(i - 1) : Skipped(read_markdown_file(rd[j]))
    ELSE 0

DestOutcomes == {"ok", "open fails", "write fails"}

\* what the files of a list give when read one after the other: a path
\* that is listed twice gives the same both times
ReadsOf(files) ==
    { rd \in [1..Len(files) -> ReadOutcomes] :
        \A i, j \in 1..Len(files) : files[i] = files[j] => rd[i] = rd[j] }

\* merge_markdown_files: dest is what the destination does, rd what each
\* source file gives when read.  The result holds the return value, what
\* became of the destination, the reads made and the writes that succeeded.
merge_markdown_files(files, rd, add_separators, dest) ==
    IF dest = "open fails"
    THEN [ret |-> "False", destination |-> "open failed",
          reads |-> <<>>, writes |-> <<>>]
    ELSE IF dest = "write fails" /\ FirstWriter(rd) > 0
    THEN [ret |-> "False", destination |-> "write failed",
          reads |-> SubSeq(rd, 1, FirstWriter(rd)), writes |-> <<>>]
    ELSE [ret |-> "True", destination |-> "written", reads |-> rd,
          writes |-> MergeLoop(files, rd, add_separators, 1)]

\* the text of the destination after the writes
Output == Flatten([k \in 1..Len(writes) |-> writes[k].text])

(***************************************************************************)
(* main                                                                    *)
(***************************************************************************)
ListPool == {PathA, PathB, PathBU, PathTxt, PathSub}

FileLists == UNION { [1..n -> ListPool] : n \in 1..MaxFiles }

DirectoryArgs == {Root, PathSub, PathA, Missing}

\* the file systems of the runs with an explicit list: the Markdown files
\* of the root vary, the other entries of the list pool are there
ExplicitFileSystems ==
    { f \in FileSystems :
        /\ PathTxt \in f.files
        /\ f.dirs = {Root, PathSub}
        /\ PathC \notin f.files }

\* the command lines with the file systems they run on; --no-separators
\* and --force are drawn where main reads them
Runs ==
    { [args |-> [files |-> l, directory |-> <<>>], fs |-> f] :
        l \in FileLists, f \in ExplicitFileSystems }
    \cup
    { [args |-> [files |-> <<>>, directory |-> d], fs |-> f] :
        d \in DirectoryArgs, f \in FileSystems }

\* if len(args.files) < 2
TooFewGiven(files) == Len(files) < 2

\* the check of the validated list without its second test
TooFewValid_emptyonly(files) == files = <<>>

\* if not input_files / if len(input_files) < 2
TooFewValid(files) == files = <<>> \/ Len(files) < 2

Exit(code) ==
    /\ pc' = "exit"
    /\ exit_code' = code

\* args.files with fewer than two entries
MainTooFewGiven ==
    /\ pc = "start"
    /\ args.files # <<>>
    /\ TooFewGiven(args.files)
    /\ Exit(1)
    /\ UNCHANGED <<args, fs, md_files, input_files, separators_arg, reads,
                   writes, destination, success>>
    /\ UNCHANGED cfgVars

MainValidateFiles ==
    /\ pc = "start"
    /\ args.files # <<>>
    /\ ~TooFewGiven(args.files)
    /\ input_files' = validate_input_files(fs, args.files)
    /\ pc' = "check"
    /\ UNCHANGED <<args, fs, md_files, separators_arg, reads, writes, destination,
                   success, exit_code>>
    /\ UNCHANGED cfgVars

MainDirectoryMissing ==
    /\ pc = "start"
    /\ args.files = <<>>
    /\ ~exists(fs, args.directory)
    /\ Exit(1)
    /\ UNCHANGED <<args, fs, md_files, input_files, separators_arg, reads,
                   writes, destination, success>>
    /\ UNCHANGED cfgVars

MainNotADirectory ==
    /\ pc = "start"
    /\ args.files = <<>>
    /\ exists(fs, args.directory)
    /\ ~isdir(fs, args.directory)
    /\ Exit(1)
    /\ UNCHANGED <<args, fs, md_files, input_files, separators_arg, reads,
                   writes, destination, success>>
    /\ UNCHANGED cfgVars

MainCollect ==
    /\ pc = "start"
    /\ args.files = <<>>
    /\ exists(fs, args.directory)
    /\ isdir(fs, args.directory)
    /\ \E order \in ScanOrders :
           md_files' = collect_md_files_from_directory(fs, args.directory, order)
    /\ pc' = "collected"
    /\ UNCHANGED <<args, fs, input_files, separators_arg, reads, writes,
                   destination, success, exit_code>>
    /\ UNCHANGED cfgVars

MainValidateCollected ==
    /\ pc = "collected"
    /\ input_files' = validate_input_files(fs, md_files)
    /\ pc' = "check"
    /\ UNCHANGED <<args, fs, md_files, separators_arg, reads, writes, destination,
                   success, exit_code>>
    /\ UNCHANGED cfgVars

MainTooFewValid ==
    /\ pc = "check"
    /\ TooFewValid(input_files)
    /\ Exit(1)
    /\ UNCHANGED <<args, fs, md_files, input_files, separators_arg, reads,
                   writes, destination, success>>
    /\ UNCHANGED cfgVars

\* if os.path.exists(args.output) and not args.force, and the answer typed
\* is none of j, ja, y, yes
Declined(output_exists, force, answer_yes) ==
    output_exists /\ ~force /\ ~answer_yes

\* the combinations of: the destination exists, --force is given, the
\* answer is yes
Prompts == BOOLEAN \X BOOLEAN \X BOOLEAN

MainAbort ==
    /\ pc = "check"
    /\ ~TooFewValid(input_files)
    /\ {p \in Prompts : Declined(p[1], p[2], p[3])} # {}
    /\ Exit(0)
    /\ UNCHANGED <<args, fs, md_files, input_files, separators_arg, reads,
                   writes, destination, success>>
    /\ UNCHANGED cfgVars

MainMerge ==
    /\ pc = "check"
    /\ ~TooFewValid(input_files)
    /\ {p \in Prompts : ~Declined(p[1], p[2], p[3])} # {}
    /\ \E no_separators \in BOOLEAN,
          rd \in ReadsOf(input_files),
          dest \in DestOutcomes :
           LET r == merge_markdown_files(input_files, rd, ~no_separators, dest)
           IN  /\ separators_arg' = ~no_separators
               /\ reads' = r.reads
               /\ writes' = r.writes
               /\ destination' = r.destination
               /\ success' = r.ret
               /\ Exit(IF r.ret = "True" THEN 0 ELSE 1)
    /\ UNCHANGED <<args, fs, md_files, input_files>>
    /\ UNCHANGED cfgVars

MainNext ==
    \/ MainTooFewGiven
    \/ MainValidateFiles
    \/ MainDirectoryMissing
    \/ MainNotADirectory
    \/ MainCollect
    \/ MainValidateCollected
    \/ MainTooFewValid
    \/ MainAbort
    \/ MainMerge

MainInit ==
    /\ pc = "start"
    /\ \E run \in Runs : args = run.args /\ fs = run.fs
    /\ separators_arg = TRUE
    /\ md_files = <<>>
    /\ input_files = <<>>
    /\ reads = <<>>
    /\ writes = <<>>
    /\ destination = "untouched"
    /\ success = "not called"
    /\ exit_code = -1

(***************************************************************************)
(* MergerConfig                                                            *)
(*                                                                         *)
(* A value of the configuration tree is a record of its Python type and    *)
(* its value; the value of a dict is a function on its keys.               *)
(***************************************************************************)
PyStr(v)  == [kind |-> "str", val |-> v]
PyBool(v) == [kind |-> "bool", val |-> v]
PyInt(v)  == [kind |-> "int", val |-> v]
PyList(v) == [kind |-> "list", val |-> v]
PyDict(v) == [kind |-> "dict", val |-> v]
None    == [kind |-> "NoneType", val |-> "None"]

EmptyDict == PyDict([k \in {} |-> None])

\* isinstance(value, dict)
IsDict(value) == value.kind = "dict"

_load_default_config ==
    PyDict([output |->
            PyDict([encoding |-> PyStr("utf-8"),
                  line_ending |-> PyStr("\n"),
                  add_toc |-> PyBool(FALSE),
                  add_timestamps |-> PyBool(FALSE)]),
          processing |->
            PyDict([skip_empty_files |-> PyBool(TRUE),
                  normalize_line_endings |-> PyBool(TRUE),
                  remove_duplicate_headers |-> PyBool(FALSE)]),
          separators |->
            PyDict([between_files |-> PyStr("---"),
                  add_file_headers |-> PyBool(TRUE),
                  header_format |-> PyStr("<!-- Quelle: {filepath} -->")]),
          filters |->
            PyDict([exclude_patterns |->
                      PyList(<<PyStr(".git"), PyStr("__pycache__"), PyStr(".DS_Store")>>),
                  include_only |-> PyList(<<PyStr(".md")>>),
                  max_file_size_mb |-> PyInt(10)])])

\* dict.update in place of the recursive merge
_deep_merge_shallow(base, update) ==
    PyDict([key \in DOMAIN base.val \cup DOMAIN update.val |->
            IF key \in DOMAIN update.val THEN update.val[key]
            ELSE base.val[key]])

RECURSIVE _deep_merge(_, _)
\* the dict base after _deep_merge(base, update), update a dict
_deep_merge(base, update) ==
    PyDict([key \in DOMAIN base.val \cup DOMAIN update.val |->
            IF key \notin DOMAIN update.val THEN base.val[key]
            ELSE IF /\ IsDict(update.val[key])
                    /\ key \in DOMAIN base.val
                    /\ IsDict(base.val[key])
                 THEN _deep_merge(base.val[key], update.val[key])
                 ELSE update.val[key]])

\* the except clause: except Exception
Caught(exception) ==
    exception \in {"OSError", "UnicodeDecodeError", "YAMLError",
                   "JSONDecodeError", "ValueError", "AttributeError"}

SuffixYaml == <<".", "y", "a", "m", "l">>
SuffixYml  == <<".", "y", "m", "l">>
SuffixJson == <<".", "j", "s", "o", "n">>

\* a loader that hands every document to the YAML parser
IsYamlName_any(path) == TRUE

\* config_file.endswith('.yaml') or config_file.endswith('.yml')
IsYamlName(path) == EndsWith(path, SuffixYaml) \/ EndsWith(path, SuffixYml)

\* config_file.endswith('.json')
IsJsonName(path) == EndsWith(path, SuffixJson)

\* the exception the body of the try statement ends with, "none" if it
\* runs to its end.  doc.opens: open() succeeds; doc.parsed: what
\* yaml.safe_load / json.load makes of the text, an error or a value
TryOutcome(doc) ==
    IF ~doc.opens THEN "OSError"
    ELSE IF IsYamlName(doc.path)
         THEN (IF doc.parsed.err THEN "YAMLError"
               ELSE IF ~IsDict(doc.parsed.value) THEN "AttributeError"
               ELSE "none")
    ELSE IF IsJsonName(doc.path)
         THEN (IF doc.parsed.err THEN "JSONDecodeError"
               ELSE IF ~IsDict(doc.parsed.value) THEN "AttributeError"
               ELSE "none")
    ELSE "ValueError"

\* _load_config_file on the configuration cfg: update.items() raises for a
\* value that is no dict before base is touched
_load_config_file(cfg, doc) ==
    LET exception == TryOutcome(doc)
    IN  IF exception = "none"
        THEN [config |-> _deep_merge(cfg, doc.parsed.value),
              warned |-> FALSE, raised |-> FALSE]
        ELSE [config |-> cfg,
              warned |-> Caught(exception),
              raised |-> ~Caught(exception)]

NoConfigFile == [path |-> <<>>, opens |-> FALSE,
                 parsed |-> [err |-> TRUE, value |-> None]]

\* MergerConfig.__init__
MergerConfig(doc) ==
    IF doc.path # <<>>
    THEN _load_config_file(_load_default_config, doc)
    ELSE [config |-> _load_default_config, warned |-> FALSE, raised |-> FALSE]

\* ''.join of the characters of a key segment
RECURSIVE JoinChars(_)
JoinChars(cs) == IF cs = <<>> THEN "" ELSE Head(cs) \o JoinChars(Tail(cs))

\* key.split('.'): a key is a sequence of pieces of text, "." among them
RECURSIVE Split(_)
Split(key) ==
    IF \A i \in 1..Len(key) : key[i] # "." THEN <<JoinChars(key)>>
    ELSE LET d == CHOOSE i \in 1..Len(key) :
                      key[i] = "." /\ \A j \in 1..(i - 1) : key[j] # "."
         IN  <<JoinChars(SubSeq(key, 1, d - 1))>>
                 \o Split(SubSeq(key, d + 1, Len(key)))

RECURSIVE Descend(_, _, _)
\* the loop of get over the segments that are left
Descend(value, keys, default) ==
    IF keys = <<>> THEN value
    ELSE IF IsDict(value) /\ Head(keys) \in DOMAIN value.val
         THEN Descend(value.val[Head(keys)], Tail(keys), default)
         ELSE default

\* MergerConfig.get on the configuration cfg
get(cfg, key, default) == Descend(cfg, Split(key), default)

(***************************************************************************)
(* Override documents                                                      *)
(***************************************************************************)
ConfigPaths ==
    { <<"c">> \o SuffixYaml, <<"c">> \o SuffixYml, <<"c">> \o SuffixJson,
      <<"c", ".", "t", "x", "t">>, <<"c", ".", "Y", "M", "L">> }

\* the functions from a subset of the keys of choices to one of the values
\* offered for the key
RECURSIVE Picks(_)
Picks(choices) ==
    IF DOMAIN choices = {} THEN {[k \in {} |-> None]}
    ELSE LET key  == CHOOSE k \in DOMAIN choices : TRUE
             rest == Picks([k \in DOMAIN choices \ {key} |-> choices[k]])
         IN  rest \cup { (key :> v) @@ r : v \in choices[key], r \in rest }

SeparatorOverrides ==
    { PyDict(m) : m \in Picks(
        [between_files |-> {PyStr("***"), PyDict([x |-> PyInt(1)])},
         add_file_headers |-> {PyBool(FALSE)},
         extra |-> {PyStr("e")}]) }

OverrideDicts ==
    { PyDict(m) : m \in Picks(
        [separators |-> SeparatorOverrides
                        \cup {PyStr("none"), None, PyList(<<PyStr("***")>>)},
         output |-> {PyStr("utf-16"), PyDict([encoding |-> PyStr("latin-1")])},
         plugins |-> {PyStr("p"), PyDict([enabled |-> PyBool(TRUE)])}]) }

ParseResults ==
    { [err |-> FALSE, value |-> v] :
        v \in OverrideDicts \cup {None, PyStr("text"), PyInt(1), PyList(<<PyStr("a")>>)} }
    \cup { [err |-> TRUE, value |-> None] }

ConfigFiles ==
    { [path |-> p, opens |-> TRUE, parsed |-> r] :
        p \in ConfigPaths, r \in ParseResults }
    \cup { [path |-> p, opens |-> FALSE, parsed |-> [err |-> TRUE, value |-> None]] :
        p \in ConfigPaths }
    \cup { NoConfigFile }

\* the override documents of the runs of main
HeadersOff == PyDict([separators |-> PyDict([add_file_headers |-> PyBool(FALSE)])])

MainConfigFiles ==
    { NoConfigFile,
      [path |-> <<"c">> \o SuffixYaml, opens |-> TRUE,
       parsed |-> [err |-> FALSE, value |-> HeadersOff]] }

KeyHeaders     == <<"separators", ".", "add_file_headers">>
KeyHeaderFormat == <<"separators", ".", "header_format">>
KeyBetween     == <<"separators", ".", "between_files">>

\* the dotted paths that have a value in the default configuration
DefaultKeys ==
    { <<k>> : k \in DOMAIN _load_default_config.val }
    \cup UNION { { <<k, ".", j>> : j \in DOMAIN _load_default_config.val[k].val } :
                 k \in DOMAIN _load_default_config.val }

LookupKeys ==
    DefaultKeys
    \cup { <<"separators", ".", "extra">>, <<"plugins", ".", "enabled">>,
           <<"separators", ".", "between_files", ".", "x">>,
           <<"sep", "arators">>, <<"separators", ".">>, <<>> }

Fallbacks == {None, PyStr("fallback")}

(***************************************************************************)
(* The MergerConfig object                                                 *)
(***************************************************************************)
Construct ==
    /\ cfg_pc = "new"
    /\ LET r == MergerConfig(config_file)
       IN  /\ config' = r.config
           /\ warned' = r.warned
           /\ raised' = r.raised
    /\ cfg_pc' = "ready"
    /\ UNCHANGED <<config_file, got>>
    /\ UNCHANGED mainVars

Get ==
    /\ cfg_pc = "ready"
    /\ \E key \in LookupKeys, default \in Fallbacks :
           got' = [key |-> key, default |-> default,
                   value |-> get(config, key, default)]
    /\ UNCHANGED <<config_file, config, cfg_pc, warned, raised>>
    /\ UNCHANGED mainVars

NotAsked == [key |-> <<>>, default |-> None, value |-> None]

ConfigInit ==
    /\ config_file \in ConfigFiles
    /\ config = EmptyDict
    /\ cfg_pc = "new"
    /\ warned = FALSE
    /\ raised = FALSE
    /\ got = NotAsked

ConfigNext == Construct \/ Get

(***************************************************************************)
(* Specifications                                                          *)
(***************************************************************************)
\* a run of main, beside a MergerConfig object that has been constructed:
\* without override document in every run, with one in the runs on a list
\* of two paths
Init ==
    /\ MainInit
    /\ \E doc \in MainConfigFiles :
           /\ doc # NoConfigFile => Len(args.files) = 2
           /\ config_file = doc
           /\ config = MergerConfig(doc).config
           /\ warned = MergerConfig(doc).warned
           /\ raised = MergerConfig(doc).raised
    /\ cfg_pc = "ready"
    /\ got = NotAsked

Next == MainNext

Spec == Init /\ [][Next]_vars

\* the life of a MergerConfig object, main not started
IdleRun == [args |-> [files |-> <<PathA, PathB>>, directory |-> <<>>],
            fs |-> [files |-> RootFilePaths, dirs |-> {Root, PathSub}]]

InitConfig ==
    /\ ConfigInit
    /\ pc = "start"
    /\ args = IdleRun.args
    /\ fs = IdleRun.fs
    /\ md_files = <<>>
    /\ input_files = <<>>
    /\ separators_arg = TRUE
    /\ reads = <<>>
    /\ writes = <<>>
    /\ destination = "untouched"
    /\ success = "not called"
    /\ exit_code = -1

SpecConfig == InitConfig /\ [][ConfigNext]_vars

(***************************************************************************)
(* Properties of the pipeline                                              *)
(***************************************************************************)
Count(seq, x) == Cardinality({i \in 1..Len(seq) : seq[i] = x})

\* the list validate_input_files was given in this run
ValidateSource == IF args.files # <<>> THEN args.files ELSE md_files

\* a path that exists, is a regular file and ends with .md in any case
ExistsRegularMd(p) ==
    /\ p \in fs.files
    /\ Len(p) >= 3
    /\ LowerChar(p[Len(p) - 2]) = "."
    /\ LowerChar(p[Len(p) - 1]) = "m"
    /\ LowerChar(p[Len(p)]) = "d"

\* the rearrangements of a list
Rearrangements(seq) ==
    { [i \in 1..Len(seq) |-> seq[o[i]]] : o \in Orderings(1..Len(seq)) }

\* C1: right after validation the result holds exactly the given paths
\* that exist, are regular files and end with .md in any case, each as
\* often as it was given, in ascending ordinal order of the path strings,
\* and every rearrangement of the given list validates to the same list.
C1_ValidateFiltersAndSorts ==
    pc = "check" =>
        /\ \A p \in Range(ValidateSource) \cup Range(input_files) :
               Count(input_files, p) =
                   IF ExistsRegularMd(p) THEN Count(ValidateSource, p) ELSE 0
        /\ \A i \in 1..(Len(input_files) - 1) :
               ~StrLess(input_files[i + 1], input_files[i])
        /\ \A q \in Rearrangements(ValidateSource) :
               validate_input_files(fs, q) = input_files

\* C1 witness: an explicit list with a rejected entry, whose surviving
\* entries were given in descending order and come out ascending, an
\* upper-case .MD among them
C1_Witness ==
    /\ pc = "check"
    /\ args.files = <<PathB, PathSub, PathBU>>
    /\ input_files = <<PathBU, PathB>>

\* the names between the slashes of a path
RECURSIVE Components(_)
Components(p) ==
    IF \A i \in 1..Len(p) : p[i] # "/" THEN <<p>>
    ELSE LET d == CHOOSE i \in 1..Len(p) :
                      p[i] = "/" /\ \A j \in 1..(i - 1) : p[j] # "/"
         IN  <<SubSeq(p, 1, d - 1)>> \o Components(SubSeq(p, d + 1, Len(p)))

DirOf(p)  == SubSeq(Components(p), 1, Len(Components(p)) - 1)
NameOf(p) == Components(p)[Len(Components(p))]

\* the length of the longest common prefix of two lists
CommonPrefix(a, b) ==
    Cardinality({k \in 1..Len(a) :
                    k <= Len(b) /\ \A j \in 1..k : a[j] = b[j]})

\* p is listed before q by a walk that lists a directory's files in
\* ascending order of name before its subdirectories, and those in ascending
\* order of name
WalkBefore(p, q) ==
    LET dp == DirOf(p)
        dq == DirOf(q)
        k  == CommonPrefix(dp, dq)
    IN  IF k = Len(dp) /\ k = Len(dq) THEN StrLess(NameOf(p), NameOf(q))
        ELSE IF k = Len(dp) THEN TRUE
        ELSE IF k = Len(dq) THEN FALSE
        ELSE StrLess(dp[k + 1], dq[k + 1])

C9_Example ==
    /\ pc = "collected"
    /\ fs.files = {PathA, PathB, PathC}
    /\ md_files = <<PathA, PathB, PathC>>

\* C8: with fewer than two validated paths the run can only end with
\* status 1: the merge is not called and the destination stays untouched.
C8_TooFewValidIsFatal ==
    (pc \in {"check", "exit"} /\ Len(input_files) < 2) =>
        /\ destination = "untouched"
        /\ success = "not called"
        /\ writes = <<>>
        /\ pc = "exit" => exit_code = 1
        /\ pc = "check" =>
               /\ ENABLED MainTooFewValid
               /\ ~ENABLED MainMerge
               /\ ~ENABLED MainAbort

\* C8 witness: a directory run that ended with status 1 because a single
\* path survived validation
C8_Witness ==
    /\ pc = "exit"
    /\ exit_code = 1
    /\ args.directory = Root
    /\ Len(md_files) = 1
    /\ Len(input_files) = 1

\* C8 witness of the explicit list
C8_WitnessList ==
    /\ pc = "exit"
    /\ exit_code = 1
    /\ Len(args.files) = 3
    /\ Len(input_files) = 1

Unreadable(i) == reads[i].err # "none"
ReadableEmpty(i) == reads[i].err = "none" /\ reads[i].text = <<>>
ReadableText(i) == reads[i].err = "none" /\ reads[i].text # <<>>

\* the writes the loop made for the file at index i
WritesOf(i) == SelectSeq(writes, LAMBDA w : w.i = i)

\* what the loop wrote for the file at index i, header and separator block
\* left out
BodyOf(i) ==
    Flatten([k \in 1..Len(WritesOf(i)) |->
                IF WritesOf(i)[k].text \in
                       {Header(input_files[i]), SeparatorBlock}
                THEN <<>> ELSE WritesOf(i)[k].text])

MergeCompleted == success # "not called" /\ destination = "written"

\* C7: when the destination takes the writes, the merge returns success
\* whatever the reads gave; a file that cannot be read is read and leaves
\* no write, and every file with text, also after an unreadable one, has
\* its text written, the writes in the order of the list.
C7_UnreadableSkipped ==
    MergeCompleted =>
        /\ success = "True"
        /\ exit_code = 0
        /\ Len(reads) = Len(input_files)
        /\ \A i \in 1..Len(reads) : Unreadable(i) => WritesOf(i) = <<>>
        /\ \A i \in 1..Len(reads) :
               ReadableText(i) =>
                   \E k \in 1..Len(writes) :
                       writes[k] = [i |-> i, text |-> reads[i].text]
        /\ \A k \in 1..(Len(writes) - 1) : writes[k].i <= writes[k + 1].i

\* C7 witness: an undecodable file and a missing file, with text written
\* for a file before and a file after them
C7_Witness ==
    /\ MergeCompleted
    /\ \E i, j, m, n \in 1..Len(reads) :
           /\ i < j /\ j < n /\ i < m /\ m < n
           /\ reads[j].err = "UnicodeDecodeError"
           /\ reads[m].err = "FileNotFoundError"
           /\ ReadableText(i) /\ WritesOf(i) # <<>>
           /\ ReadableText(n) /\ WritesOf(n) # <<>>

\* C10 as claimed: every readable file, the empty one too, has its content
\* in the output, ended by a line terminator.
C10_EveryReadableWritten ==
    MergeCompleted =>
        \A i \in 1..Len(reads) :
            ~Unreadable(i) =>
                /\ BodyOf(i) =
                       reads[i].text \o
                           (IF EndsWith(reads[i].text, Newline)
                            THEN <<>> ELSE Newline)
                /\ EndsWith(BodyOf(i), Newline)

\* C10 amended: every readable file whose content is not empty has its
\* content in the output verbatim, followed by one line terminator if the
\* content does not end with one; the files without any write are the
\* unreadable ones and the readable ones whose content is empty.
C10_NonEmptyReadableWritten ==
    MergeCompleted =>
        \A i \in 1..Len(reads) :
            /\ ReadableText(i) =>
                   /\ BodyOf(i) =
                          reads[i].text \o
                              (IF EndsWith(reads[i].text, Newline)
                               THEN <<>> ELSE Newline)
                   /\ EndsWith(BodyOf(i), Newline)
                   /\ Head(WritesOf(i)).text = Header(input_files[i])
            /\ WritesOf(i) = <<>> <=> (Unreadable(i) \/ ReadableEmpty(i))

\* C10 witness: a merge of a text without final line terminator, a text
\* with one, and a readable empty file
C10_Witness ==
    /\ MergeCompleted
    /\ \E i, j, k \in 1..Len(reads) :
           /\ reads[i] = [err |-> "none", text |-> TextFoo]
           /\ BodyOf(i) = TextFoo \o Newline
           /\ reads[j] = [err |-> "none", text |-> TextBar]
           /\ BodyOf(j) = TextBar
           /\ ReadableEmpty(k)
           /\ WritesOf(k) = <<>>

Survives(i) == WritesOf(i) # <<>>

\* C2: with separators enabled the separator block is written after the
\* contribution of a file exactly when a later file of the list survives,
\* so the output never ends with the separator block.
C2_SeparatorOnlyBetweenSurvivors ==
    (MergeCompleted /\ separators_arg) =>
        /\ \A i \in 1..Len(reads) :
               (\E k \in 1..Len(writes) :
                    writes[k] = [i |-> i, text |-> SeparatorBlock])
               <=> (Survives(i) /\ \E j \in (i + 1)..Len(reads) : Survives(j))
        /\ ~EndsWith(Output, SeparatorBlock)

\* C3: the header of a file is written if separators.add_file_headers is
\* true in the resolved configuration, and no header is written when it is
\* false.
C3_HeaderFollowsConfig ==
    MergeCompleted =>
        /\ get(config, KeyHeaders, None) = PyBool(TRUE) =>
               \A i \in 1..Len(reads) :
                   Survives(i) =>
                       Head(WritesOf(i)).text = Header(input_files[i])
        /\ get(config, KeyHeaders, None) = PyBool(FALSE) =>
               \A k \in 1..Len(writes) :
                   ~StartsWith(writes[k].text, HeaderPrefix)

(***************************************************************************)
(* Properties of MergerConfig                                              *)
(***************************************************************************)
\* the path ends with .yaml, .yml or .json
SupportedSuffix(path) ==
    \/ EndsWith(path, <<".", "y", "a", "m", "l">>)
    \/ EndsWith(path, <<".", "y", "m", "l">>)
    \/ EndsWith(path, <<".", "j", "s", "o", "n">>)

\* the object was constructed with an override document that opened, has a
\* supported suffix and parsed to a mapping
OverrideLoaded ==
    /\ cfg_pc = "ready"
    /\ config_file.path # <<>>
    /\ config_file.opens
    /\ SupportedSuffix(config_file.path)
    /\ ~config_file.parsed.err
    /\ config_file.parsed.value.kind = "dict"

\* C4: after an override is merged, a default key the override does not
\* name keeps its default value, at the top and inside every section for
\* which default and override both hold a mapping; the keys the override
\* names there take the override's value and no other key appears.
C4_DeepMergeKeepsSiblings ==
    OverrideLoaded =>
        LET D == _load_default_config.val
            U == config_file.parsed.value.val
            C == config.val
        IN  /\ config.kind = "dict"
            /\ DOMAIN C = DOMAIN D \cup DOMAIN U
            /\ \A k \in DOMAIN D \ DOMAIN U : C[k] = D[k]
            /\ \A k \in DOMAIN U \ DOMAIN D : C[k] = U[k]
            /\ \A k \in DOMAIN D \cap DOMAIN U :
                   (U[k].kind = "dict" /\ D[k].kind = "dict") =>
                       /\ C[k].kind = "dict"
                       /\ DOMAIN C[k].val = DOMAIN D[k].val \cup DOMAIN U[k].val
                       /\ \A j \in DOMAIN D[k].val \ DOMAIN U[k].val :
                              C[k].val[j] = D[k].val[j]
                       /\ \A j \in DOMAIN U[k].val :
                              C[k].val[j] = U[k].val[j]

\* C4 witness: the override {separators: {between_files: '***'}} changed
\* separators.between_files and nothing else
C4_Witness ==
    /\ OverrideLoaded
    /\ config_file.parsed.value =
           PyDict([separators |-> PyDict([between_files |-> PyStr("***")])])
    /\ get(config, KeyBetween, None) = PyStr("***")
    /\ get(config, KeyHeaders, None) = PyBool(TRUE)
    /\ \A key \in DefaultKeys \ {KeyBetween, <<"separators">>} :
           get(config, key, None) = get(_load_default_config, key, None)

\* C5: after construction every dotted path that has a value in the default
\* configuration has one in the configuration: get does not return the
\* fallback for it.
C5_DefaultKeysKeepValue ==
    cfg_pc = "ready" =>
        \A key \in DefaultKeys :
            get(config, key, PyStr("fallback")) # PyStr("fallback")

\* the override document is given and cannot be opened, cannot be parsed,
\* has an unsupported suffix or does not parse to a mapping
BadDocument(doc) ==
    /\ doc.path # <<>>
    /\ \/ ~doc.opens
       \/ doc.parsed.err
       \/ ~SupportedSuffix(doc.path)
       \/ doc.parsed.value.kind # "dict"

\* C6: constructed with a bad override document, the object holds the
\* default configuration, the warning was printed and no exception left
\* _load_config_file.
C6_BadOverrideKeepsDefaults ==
    (cfg_pc = "ready" /\ BadDocument(config_file)) =>
        /\ config = _load_default_config
        /\ warned
        /\ ~raised

\* C6 witness: a document with the suffix .txt that holds a well-formed
\* mapping override was refused
C6_Witness ==
    /\ cfg_pc = "ready"
    /\ config_file.path = <<"c", ".", "t", "x", "t">>
    /\ config_file.opens
    /\ ~config_file.parsed.err
    /\ config_file.parsed.value =
           PyDict([separators |-> PyDict([between_files |-> PyStr("***")])])
    /\ config = _load_default_config
    /\ warned

\* C6 witness: a document that parsed to a list was refused
C6_WitnessList ==
    /\ cfg_pc = "ready"
    /\ config_file.opens
    /\ SupportedSuffix(config_file.path)
    /\ ~config_file.parsed.err
    /\ config_file.parsed.value.kind = "list"
    /\ config = _load_default_config
    /\ warned

====
